---- MODULE Spec2Model ----
(***************************************************************************)
(* Fast BOZ chat gateway (src/main.py): the /api/chat handler chat_with_ai *)
(* and the model catalog of /api/models, with the completion engine        *)
(* (g4f.ChatCompletion.create_async) as the environment.                   *)
(*                                                                         *)
(* Text is a sequence of one-character strings.  An Optional value is a    *)
(* sequence of length 0 (None) or 1 (the value).                           *)
(***************************************************************************)
EXTENDS Integers, Sequences, FiniteSets

\* ------------------------------------------------------------------ bounds
NumRequests == 2
MaxHistory == 2
MaxModelLen == 2
MaxTextLen == 2
MaxErrLen == 1

Requests == 1..NumRequests

SeqsUpTo(S, n) == UNION {[1..k -> S] : k \in 0..n}

\* ---------------------------------------------------------------- optional
None == <<>>
Some(x) == <<x>>
IsNone(o) == o = <<>>
Get(o) == o[1]

\* ------------------------------------------------------------- data model
Roles == {"user", "assistant", "system"}
Contents == {"a", "b"}

\* class Message
Message == [role : Roles, content : Contents]

ModelChars == {"-", "_", "g"}
ModelStrings == SeqsUpTo(ModelChars, MaxModelLen)

\* ChatRequest.model default "gpt-4o-mini": a hyphenated public identifier
DefaultModel == <<"g", "-">>

\* class ChatRequest; history and model are Optional, so null is admitted
ChatRequest ==
    [message : Contents,
     history : {None} \cup {Some(h) : h \in SeqsUpTo(Message, MaxHistory)},
     model   : {None} \cup {Some(m) : m \in ModelStrings}]

\* the request {"message": m} with both defaults applied
DefaultRequests ==
    {[message |-> m, history |-> Some(<<>>), model |-> Some(DefaultModel)] :
        m \in Contents}

\* ------------------------------------------------------- engine namespace
\* dir(g4f.models): every attribute name of the module, in dir()'s sorted
\* order ("_" sorts before letters).  Names starting with "_" are private.
DirModels ==
    << <<"_", "_">>, <<"_", "g">>, <<"g">>, <<"g", "_">>, <<"g", "g">> >>

ModelAttrs == {DirModels[i] : i \in 1..Len(DirModels)}

\* str(model) of the object an attribute holds
StrOfModel(attr) ==
    CASE attr = <<"_", "_">> -> <<"g", ".", "m">>
      [] attr = <<"_", "g">> -> <<"g", "_", "g">>
      [] attr = <<"g">>      -> <<"g">>
      [] attr = <<"g", "_">> -> <<"m", ".", "g", "_">>
      [] OTHER               -> <<"g", "g">>

\* attr.startswith("_")
StartsWithUnderscore(name) == Len(name) >= 1 /\ name[1] = "_"

\* [attr for attr in dir(g4f.models) if not attr.startswith("_")]
Available == SelectSeq(DirModels, LAMBDA n : ~StartsWithUnderscore(n))

\* the model catalog, as list_models returns it
Catalog == {Available[i] : i \in 1..Len(Available)}

\* str.replace(old, new) on single characters
Replace(s, old, new) == [i \in 1..Len(s) |-> IF s[i] = old THEN new ELSE s[i]]

\* request.model.replace("-", "_")
NormalizeModel(m) == Replace(m, "-", "_")

\* getattr(g4f.models, model_name), None standing for AttributeError;
\* request.model None makes .replace raise AttributeError as well
ResolveModel(modelOpt) ==
    IF IsNone(modelOpt) THEN None
    ELSE IF NormalizeModel(Get(modelOpt)) \in ModelAttrs
         THEN Some(NormalizeModel(Get(modelOpt)))
         ELSE None

\* ------------------------------------------------------------------- text
TextChars == {" ", "a"}
Whitespace == {" "}
Texts == SeqsUpTo(TextChars, MaxTextLen)

RECURSIVE LStrip(_)
LStrip(s) ==
    IF s # <<>> /\ Head(s) \in Whitespace THEN LStrip(Tail(s)) ELSE s

RECURSIVE RStrip(_)
RStrip(s) ==
    IF s # <<>> /\ s[Len(s)] \in Whitespace
    THEN RStrip(SubSeq(s, 1, Len(s) - 1))
    ELSE s

\* only the leading whitespace removed
StripLeftOnly(s) == LStrip(s)

\* str.strip()
Strip(s) == RStrip(LStrip(s))

\* the emptiness test without the strip: whitespace-only text passes
IsEmptyResponseNoStrip(valueOpt) ==
    IsNone(valueOpt) \/ Get(valueOpt) = <<>>

\* not response or not response.strip()
IsEmptyResponse(valueOpt) ==
    IsNone(valueOpt) \/ Get(valueOpt) = <<>> \/ Strip(Get(valueOpt)) = <<>>

\* s.split(".")[-1]
RECURSIVE LastSegment(_)
LastSegment(s) ==
    IF \E i \in 1..Len(s) : s[i] = "."
    THEN LastSegment(Tail(s))
    ELSE s

\* str(model).split(".")[-1].replace("_", "-")
UsedModel(attr) == Replace(LastSegment(StrOfModel(attr)), "_", "-")

\* ------------------------------------------------------------ the engine
Providers == {"P1", "P2"}

\* g4f.ChatCompletion.provider as hasattr / __name__ see it: the attribute
\* may be missing, or hold an object with or without a __name__
NoProviderAttr == [hasattr |-> FALSE, name |-> None]
ProviderObjects ==
    {[hasattr |-> TRUE, name |-> n] : n \in {None} \cup {Some(p) : p \in Providers}}

\* used_provider, lines 121-126
UsedProvider(gp) ==
    IF ~gp.hasattr THEN "Unknown"
    ELSE IF IsNone(gp.name) THEN "Auto"
    ELSE Get(gp.name)

\* what the engine call can raise: the exception's type and str(e) as words
ExcTypes == {"TimeoutError", "Exception"}
ErrWords == {"Cloudflare", "error"}
Exceptions == [type : ExcTypes, text : SeqsUpTo(ErrWords, MaxErrLen)]

\* "Cloudflare" in str(e)
MentionsCloudflare(e) == \E i \in 1..Len(e.text) : e.text[i] = "Cloudflare"

\* what create_async can return: None or text
EngineValues == {None} \cup {Some(t) : t \in Texts}

TaskIdle == [state |-> "idle", value |-> None, exc |-> None]
TaskRunning == [state |-> "running", value |-> None, exc |-> None]

\* ---------------------------------------------------------------- outcomes
NoDetail == [msg |-> "", model |-> None, available |-> <<>>]
NoOutcome ==
    [kind |-> "none", status |-> 0, detail |-> NoDetail,
     response |-> <<>>, model |-> <<>>, provider |-> ""]

\* raise HTTPException(status_code=status, detail=msg)
HTTPError(status, msg) ==
    [NoOutcome EXCEPT !.kind = "http_error", !.status = status,
                      !.detail = [NoDetail EXCEPT !.msg = msg]]

\* lines 100-104: the detail names request.model and joins `available`
ModelNotFound(modelOpt) ==
    [NoOutcome EXCEPT !.kind = "http_error", !.status = 400,
                      !.detail = [msg |-> "Model not found. Available:",
                                  model |-> modelOpt,
                                  available |-> Available]]

\* an exception that leaves chat_with_ai without becoming an HTTPException:
\* the framework answers 500 with no detail
Unhandled == [NoOutcome EXCEPT !.kind = "unhandled", !.status = 500]

\* return ChatResponse(response=..., model=..., provider=...), lines 131-135
ChatResponse(text, model, provider) ==
    [NoOutcome EXCEPT !.kind = "response", !.status = 200,
                      !.response = text, !.model = model, !.provider = provider]

\* ------------------------------------------------------------------- state
VARIABLES
    request,        \* request[r]: None, or Some(the ChatRequest of call r)
    pc,             \* position of call r: "received", "awaiting", "done"
    engineCalls,    \* number of create_async invocations made for call r
    engineArgs,     \* None, or Some([model, messages]) passed to the engine
    engineTask,     \* the engine call of r: idle/running/returned/raised/...
    engineProvider, \* g4f.ChatCompletion.provider, global to all calls
    ownProvider,    \* the provider state r's own engine call last set
    outcome         \* what call r ended with

vars == <<request, pc, engineCalls, engineArgs, engineTask, engineProvider,
          ownProvider, outcome>>

\* ----------------------------------------------------------- chat_with_ai
\* a role check that also lets "system" through
ValidRoleWithSystem(role) == role \in {"user", "assistant", "system"}

\* msg.role not in ["user", "assistant"], negated
ValidRole(role) == role \in {"user", "assistant"}

\* lines 85-90
HistoryValid(h) == \A i \in 1..Len(h) : ValidRole(h[i].role)

\* the new user message put first instead of appended last
BuildMessagesPrepend(req) ==
    <<[role |-> "user", content |-> req.message]>> \o
    [i \in 1..Len(Get(req.history)) |->
        [role |-> Get(req.history)[i].role,
         content |-> Get(req.history)[i].content]]

\* lines 93-94
BuildMessages(req) ==
    Append([i \in 1..Len(Get(req.history)) |->
               [role |-> Get(req.history)[i].role,
                content |-> Get(req.history)[i].content]],
           [role |-> "user", content |-> req.message])

\* lines 83-104 when they end the call: None when the engine is reached
RejectBeforeEngine(req) ==
    IF IsNone(req.history) THEN Some(Unhandled)
    ELSE IF ~HistoryValid(Get(req.history))
    THEN Some(HTTPError(400, "Invalid role. Only 'user' and 'assistant' are allowed."))
    ELSE IF IsNone(ResolveModel(req.model)) THEN Some(ModelNotFound(req.model))
    ELSE None

\* lines 114-146 once the awaited engine call has completed
AfterAwait(req, task, gp) ==
    IF task.state = "raised"
    THEN IF Get(task.exc).type = "TimeoutError"
         THEN HTTPError(504, "AI response timed out")
         ELSE IF MentionsCloudflare(Get(task.exc))
         THEN HTTPError(503, "AI service is temporarily blocked")
         ELSE HTTPError(500, "AI processing failed")
    ELSE IF IsEmptyResponse(task.value)
    THEN HTTPError(502, "Empty response from AI")
    ELSE ChatResponse(Strip(Get(task.value)),
                      UsedModel(Get(ResolveModel(req.model))),
                      UsedProvider(gp))

\* the handler runs from its entry to the await of line 107, or to a raise
ChatStart(r) ==
    /\ request[r] # None
    /\ pc[r] = "received"
    /\ LET req == Get(request[r])
           rejected == RejectBeforeEngine(req)
       IN  IF rejected # None
           THEN /\ outcome' = [outcome EXCEPT ![r] = Get(rejected)]
                /\ pc' = [pc EXCEPT ![r] = "done"]
                /\ UNCHANGED <<engineCalls, engineArgs, engineTask>>
           ELSE /\ engineCalls' = [engineCalls EXCEPT ![r] = @ + 1]
                /\ engineArgs' = [engineArgs EXCEPT ![r] =
                        Some([model |-> Get(ResolveModel(req.model)),
                              messages |-> BuildMessages(req)])]
                /\ engineTask' = [engineTask EXCEPT ![r] = TaskRunning]
                /\ pc' = [pc EXCEPT ![r] = "awaiting"]
                /\ UNCHANGED outcome
    /\ UNCHANGED <<request, engineProvider, ownProvider>>

\* the engine, while serving r, records the provider it uses in its global
EngineSetProvider(r, p) ==
    /\ engineTask[r].state = "running"
    /\ engineProvider' = p
    /\ ownProvider' = [ownProvider EXCEPT ![r] = p]
    /\ UNCHANGED <<request, pc, engineCalls, engineArgs, engineTask, outcome>>

\* create_async returns v before the deadline
EngineReturn(r, v) ==
    /\ engineTask[r].state = "running"
    /\ engineTask' = [engineTask EXCEPT ![r] =
            [state |-> "returned", value |-> v, exc |-> None]]
    /\ UNCHANGED <<request, pc, engineCalls, engineArgs, engineProvider,
                   ownProvider, outcome>>

\* create_async raises e before the deadline
EngineRaise(r, e) ==
    /\ engineTask[r].state = "running"
    /\ engineTask' = [engineTask EXCEPT ![r] =
            [state |-> "raised", value |-> None, exc |-> Some(e)]]
    /\ UNCHANGED <<request, pc, engineCalls, engineArgs, engineProvider,
                   ownProvider, outcome>>

\* the deadline with no `except asyncio.TimeoutError`: the timeout falls
\* through to the generic handler and becomes 500
DeadlineUncaught(r) ==
    /\ pc[r] = "awaiting"
    /\ engineTask[r].state = "running"
    /\ engineTask' = [engineTask EXCEPT ![r] =
            [state |-> "cancelled", value |-> None, exc |-> None]]
    /\ outcome' = [outcome EXCEPT ![r] = HTTPError(500, "AI processing failed")]
    /\ pc' = [pc EXCEPT ![r] = "done"]
    /\ UNCHANGED <<request, engineCalls, engineArgs, engineProvider, ownProvider>>

\* asyncio.wait_for(..., timeout=30.0) expires on a call still running:
\* the wait is cancelled, TimeoutError reaches line 114, 504 is raised
Deadline(r) ==
    /\ pc[r] = "awaiting"
    /\ engineTask[r].state = "running"
    /\ engineTask' = [engineTask EXCEPT ![r] =
            [state |-> "cancelled", value |-> None, exc |-> None]]
    /\ outcome' = [outcome EXCEPT ![r] = HTTPError(504, "AI response timed out")]
    /\ pc' = [pc EXCEPT ![r] = "done"]
    /\ UNCHANGED <<request, engineCalls, engineArgs, engineProvider, ownProvider>>

\* the cancelled engine call is not guaranteed to stop: it may still
\* produce a value, which nothing awaits any more
EngineLateReturn(r, v) ==
    /\ engineTask[r].state = "cancelled"
    /\ engineTask' = [engineTask EXCEPT ![r] =
            [state |-> "late", value |-> v, exc |-> None]]
    /\ UNCHANGED <<request, pc, engineCalls, engineArgs, engineProvider,
                   ownProvider, outcome>>

\* a handler that calls the engine again when the response is empty
ChatResumeRetry(r) ==
    /\ pc[r] = "awaiting"
    /\ engineTask[r].state \in {"returned", "raised"}
    /\ IF engineTask[r].state = "returned" /\ IsEmptyResponse(engineTask[r].value)
       THEN /\ engineCalls' = [engineCalls EXCEPT ![r] = @ + 1]
            /\ engineTask' = [engineTask EXCEPT ![r] = TaskRunning]
            /\ UNCHANGED <<pc, outcome>>
       ELSE /\ outcome' = [outcome EXCEPT ![r] =
                    AfterAwait(Get(request[r]), engineTask[r], engineProvider)]
            /\ pc' = [pc EXCEPT ![r] = "done"]
            /\ UNCHANGED <<engineCalls, engineTask>>
    /\ UNCHANGED <<request, engineArgs, engineProvider, ownProvider>>

\* the handler resumes after the await with the engine's result or exception
ChatResume(r) ==
    /\ pc[r] = "awaiting"
    /\ engineTask[r].state \in {"returned", "raised"}
    /\ outcome' = [outcome EXCEPT ![r] =
            AfterAwait(Get(request[r]), engineTask[r], engineProvider)]
    /\ pc' = [pc EXCEPT ![r] = "done"]
    /\ UNCHANGED <<request, engineCalls, engineArgs, engineTask,
                   engineProvider, ownProvider>>

\* ---------------------------------------------------------- specifications
InitCalls ==
    /\ pc = [r \in Requests |-> "received"]
    /\ engineCalls = [r \in Requests |-> 0]
    /\ engineArgs = [r \in Requests |-> None]
    /\ engineTask = [r \in Requests |-> TaskIdle]
    /\ engineProvider = NoProviderAttr
    /\ ownProvider = [r \in Requests |-> NoProviderAttr]
    /\ outcome = [r \in Requests |-> NoOutcome]

\* one chat request, any request the data model admits
Init ==
    /\ \E req \in ChatRequest :
          request = [r \in Requests |-> IF r = 1 THEN Some(req) ELSE None]
    /\ InitCalls

\* concurrent chat requests, each with the default history and model
InitConc ==
    /\ request \in [Requests -> {Some(req) : req \in DefaultRequests}]
    /\ InitCalls

Next ==
    \E r \in Requests :
        \/ ChatStart(r)
        \/ \E p \in ProviderObjects : EngineSetProvider(r, p)
        \/ \E v \in EngineValues : EngineReturn(r, v)
        \/ \E e \in Exceptions : EngineRaise(r, e)
        \/ Deadline(r)
        \/ \E v \in EngineValues : EngineLateReturn(r, v)
        \/ ChatResume(r)

Spec == Init /\ [][Next]_vars

SpecConc == InitConc /\ [][Next]_vars

\* ================================================================= claims
Req(r) == Get(request[r])
Hist(r) == Get(Req(r).history)
Submitted(r) == request[r] # None
Handled(r) == Submitted(r) /\ pc[r] # "received"
HasHistory(r) == Submitted(r) /\ Req(r).history # None
HasBadRole(r) ==
    HasHistory(r) /\ \E i \in 1..Len(Hist(r)) : Hist(r)[i].role \notin {"user", "assistant"}
RolesAllowed(r) ==
    HasHistory(r) /\ \A i \in 1..Len(Hist(r)) : Hist(r)[i].role \in {"user", "assistant"}
OnlyWhitespace(v) == v = None \/ \A i \in 1..Len(Get(v)) : Get(v)[i] = " "
MappedStatuses == {400, 500, 502, 503, 504}

\* C1: a chat request whose history holds an entry with a role outside
\* {user, assistant} never has the engine invoked for it, and once the
\* handler has run its outcome is the 400 error, whatever its model field
\* and its other history entries are.
C1_BadRoleRejected ==
    \A r \in Requests :
        HasBadRole(r) =>
            /\ engineCalls[r] = 0
            /\ engineArgs[r] = None
            /\ engineTask[r].state = "idle"
            /\ Handled(r) => /\ outcome[r].kind = "http_error"
                             /\ outcome[r].status = 400

\* a request rejected for a bad role in its second entry, after a valid
\* first entry, with a model that would have resolved
C1_Witness ==
    \E r \in Requests :
        /\ HasHistory(r) /\ Len(Hist(r)) = 2
        /\ Hist(r)[1].role = "assistant" /\ Hist(r)[2].role = "system"
        /\ Req(r).model = Some(DefaultModel)
        /\ pc[r] = "done" /\ outcome[r].status = 400

\* C2: a chat request with valid history whose model string, hyphens
\* replaced by underscores, is not in the model catalog ends with 400, the
\* engine not invoked, the detail listing every identifier of the catalog.
C2_UnknownModelRejected ==
    \A r \in Requests :
        (/\ Handled(r) /\ RolesAllowed(r)
         /\ Req(r).model # None
         /\ NormalizeModel(Get(Req(r).model)) \notin Catalog)
        => /\ engineCalls[r] = 0
           /\ outcome[r].status = 400
           /\ \A m \in Catalog :
                \E i \in 1..Len(outcome[r].detail.available) :
                    outcome[r].detail.available[i] = m

\* C3: when the engine call raises, the outcome is 503 if the exception's
\* text contains "Cloudflare" and 500 otherwise, whatever the exception's
\* type is.
C3_EngineExceptionMapped ==
    \A r \in Requests :
        (pc[r] = "done" /\ engineTask[r].state = "raised") =>
            outcome[r].status =
                (IF \E i \in 1..Len(Get(engineTask[r].exc).text) :
                        Get(engineTask[r].exc).text[i] = "Cloudflare"
                 THEN 503 ELSE 500)

\* C4: every chat request that fails ends in a mapped error (400, 500, 502,
\* 503, 504) with a detail string; no exception leaves the handler unmapped.
C4_FailuresMapped ==
    \A r \in Requests :
        \/ outcome[r].kind \in {"none", "response"}
        \/ /\ outcome[r].kind = "http_error"
           /\ outcome[r].status \in MappedStatuses
           /\ outcome[r].detail.msg # ""

C6_EmptyResponseIs502 ==
    \A r \in Requests :
        /\ (/\ pc[r] = "done" /\ engineTask[r].state = "returned"
            /\ OnlyWhitespace(engineTask[r].value))
           => outcome[r].status = 502
        /\ outcome[r].status = 200
           => /\ engineTask[r].state = "returned"
              /\ ~OnlyWhitespace(engineTask[r].value)

\* the engine returned non-empty text made only of whitespace: 502
C6_Witness ==
    \E r \in Requests :
        /\ engineTask[r].state = "returned"
        /\ engineTask[r].value # None
        /\ Len(Get(engineTask[r].value)) >= 1
        /\ OnlyWhitespace(engineTask[r].value)
        /\ pc[r] = "done" /\ outcome[r].status = 502

\* C7: under any interleaving of concurrent chat requests, the provider a
\* 200 response names is the one the request's own engine call left, as if
\* the request had run alone.
C7_ProviderIsOwn ==
    \A r \in Requests :
        outcome[r].status = 200 =>
            outcome[r].provider = UsedProvider(ownProvider[r])

\* C8: whenever the engine is invoked for a chat request, the message list
\* it receives has len(history)+1 entries: entry i is history entry i, and
\* the last entry has role "user" and the request's message as content.
C8_MessagesAreHistoryThenMessage ==
    \A r \in Requests :
        engineCalls[r] >= 1 =>
            /\ engineArgs[r] # None
            /\ LET msgs == Get(engineArgs[r]).messages
               IN  /\ Len(msgs) = Len(Hist(r)) + 1
                   /\ \A i \in 1..Len(Hist(r)) :
                        /\ msgs[i].role = Hist(r)[i].role
                        /\ msgs[i].content = Hist(r)[i].content
                   /\ msgs[Len(msgs)].role = "user"
                   /\ msgs[Len(msgs)].content = Req(r).message

\* the engine invoked with a two-entry history whose entries differ from
\* each other and from the new message
C8_Witness ==
    \E r \in Requests :
        /\ engineCalls[r] = 1
        /\ HasHistory(r) /\ Len(Hist(r)) = 2
        /\ Hist(r)[1] = [role |-> "user", content |-> "a"]
        /\ Hist(r)[2] = [role |-> "assistant", content |-> "b"]
        /\ Req(r).message = "a"

\* C9: whenever chat returns 200, the response is the engine's text with
\* leading and trailing whitespace removed (non-empty, no whitespace at
\* either end), the model field holds no underscore, and the provider field
\* is the engine's provider name, "Unknown" when the engine exposes no
\* provider, "Auto" when the provider has no name to read.
C9_ResponseFields ==
    [][\A r \in Requests :
         (outcome[r].kind = "none" /\ outcome'[r].status = 200) =>
            LET text == Get(engineTask[r].value)
                resp == outcome'[r].response
            IN  /\ resp # <<>>
                /\ resp[1] # " " /\ resp[Len(resp)] # " "
                /\ \E i \in 1..Len(text) :
                     /\ Len(resp) <= Len(text) - i + 1
                     /\ resp = SubSeq(text, i, i + Len(resp) - 1)
                     /\ \A j \in 1..Len(text) :
                          (j < i \/ j > i + Len(resp) - 1) => text[j] = " "
                /\ \A i \in 1..Len(outcome'[r].model) : outcome'[r].model[i] # "_"
                /\ outcome'[r].provider =
                     (IF ~engineProvider.hasattr THEN "Unknown"
                      ELSE IF engineProvider.name = None THEN "Auto"
                      ELSE Get(engineProvider.name))
      ]_vars

\* a 200 whose engine text had whitespace to remove, whose model identifier
\* has an underscore, and whose provider has a name
C9_Witness ==
    \E r \in Requests :
        /\ outcome[r].status = 200
        /\ engineTask[r].value = Some(<<" ", "a">>)
        /\ outcome[r].response = <<"a">>
        /\ Get(engineArgs[r]).model = <<"g", "_">>
        /\ outcome[r].model = <<"g", "-">>
        /\ outcome[r].provider = "P2"

\* C10: the engine is invoked at most once per chat request: a request
\* rejected with 400 invokes it zero times, and a request that ended after
\* a timeout, an empty response or an engine exception invoked it once and
\* has no further call in flight.
C10_AtMostOneEngineCall ==
    \A r \in Requests :
        /\ engineCalls[r] <= 1
        /\ outcome[r].status = 400 => engineCalls[r] = 0
        /\ pc[r] = "done" =>
              /\ engineTask[r].state # "running"
              /\ outcome[r].status \in {200, 502, 503, 504} => engineCalls[r] = 1

\* a request that ended with an engine exception after its single call
C10_Witness ==
    \E r \in Requests :
        /\ pc[r] = "done"
        /\ engineTask[r].state = "raised"
        /\ outcome[r].status = 500
        /\ engineCalls[r] = 1

====
